---- MODULE Spec2Model ----
(***************************************************************************)
(* A model of go-toml-config: typed configuration settings declared on a   *)
(* config.Set (a wrapper of flag.FlagSet) and loaded from a TOML document,  *)
(* a TOML string or an argument list.                                       *)
(*                                                                         *)
(* Texts (Go strings) are sequences of one-character strings, so that the  *)
(* regular expressions of buildLoadError, strings.Join, fmt's %v and the    *)
(* strconv parsers are computed character by character.  Numbers are        *)
(* decimal digit sequences (most significant digit first) with a sign, so   *)
(* that the 64-bit limits of strconv are the real ones.                     *)
(*                                                                         *)
(* The standard library is modelled as of the Go releases the package was   *)
(* written against (flag.Value.Set returns the strconv / time error         *)
(* unchanged), on a 64-bit platform.                                        *)
(*                                                                         *)
(* Three specifications share the actions:                                 *)
(*   Spec      a process from its start: the declarators, Parse,           *)
(*             ParseString and ParseArguments on CommandLine and two Sets;  *)
(*   SpecLoad  a program with its Settings declared that loads documents    *)
(*             of nested tables into one Set;                               *)
(*   SpecArgs  a program with its Settings declared on Sets of the three    *)
(*             error handling policies that loads argument lists and        *)
(*             documents.                                                   *)
(***************************************************************************)
EXTENDS Integers, Sequences, FiniteSets, TLC

(* ------------------------------ bounds -------------------------------- *)

\* The longest path of table keys from the root of a document to a leaf.
MaxDepth == 3
\* The largest number of leaves of a generated document.
MaxLeaves == 2
\* The largest number of Settings the Sets of a process hold (Spec).
MaxDecl == 2

(* ------------------------------- texts -------------------------------- *)

NoSuchFlagText ==
    <<"n","o"," ","s","u","c","h"," ","f","l","a","g"," ","-">>
NotValidSettingText ==
    <<" ","i","s"," ","n","o","t"," ","a"," ","v","a","l","i","d"," ","c","o","n","f","i","g"," ","s","e","t","t","i","n","g">>
ValueForText ==
    <<"T","h","e"," ","v","a","l","u","e"," ","f","o","r"," ">>
IsInvalidText ==
    <<" ","i","s"," ","i","n","v","a","l","i","d">>
StrconvText ==
    <<"s","t","r","c","o","n","v",".">>
ParsingText ==
    <<":"," ","p","a","r","s","i","n","g"," ">>
InvalidSyntaxText ==
    <<":"," ","i","n","v","a","l","i","d"," ","s","y","n","t","a","x">>
OutOfRangeText ==
    <<":"," ","v","a","l","u","e"," ","o","u","t"," ","o","f"," ","r","a","n","g","e">>
InvalidDurationText ==
    <<"t","i","m","e",":"," ","i","n","v","a","l","i","d"," ","d","u","r","a","t","i","o","n"," ">>
MissingUnitText ==
    <<"t","i","m","e",":"," ","m","i","s","s","i","n","g"," ","u","n","i","t"," ","i","n"," ","d","u","r","a","t","i","o","n"," ">>
UnknownUnitText ==
    <<"t","i","m","e",":"," ","u","n","k","n","o","w","n"," ","u","n","i","t"," ">>
InDurationText ==
    <<" ","i","n"," ","d","u","r","a","t","i","o","n"," ">>
NotValidTomlText ==
    <<"N","o","t"," ","a"," ","v","a","l","i","d"," ","T","O","M","L","."," ","S","e","e"," ","h","t","t","p","s",":","/","/","g","i","t","h","u","b",".","c","o","m","/","m","o","j","o","m","b","o","/","t","o","m","l">>
NotValidTomlFileText ==
    <<" ","i","s"," ","n","o","t"," ","a"," ","v","a","l","i","d"," ","T","O","M","L"," ","f","i","l","e","."," ","S","e","e"," ","h","t","t","p","s",":","/","/","g","i","t","h","u","b",".","c","o","m","/","m","o","j","o","m","b","o","/","t","o","m","l">>
OpenText ==
    <<"o","p","e","n"," ">>
NoSuchFileText ==
    <<":"," ","n","o"," ","s","u","c","h"," ","f","i","l","e"," ","o","r"," ","d","i","r","e","c","t","o","r","y">>
NotDefinedText ==
    <<"f","l","a","g"," ","p","r","o","v","i","d","e","d"," ","b","u","t"," ","n","o","t"," ","d","e","f","i","n","e","d",":"," ","-">>
\* A help error with the text of the error for the undefined flag x.
ErrHelpAsUndefined ==
    NotDefinedText \o <<"x">>
\* flag.ErrHelp
ErrHelp ==
    <<"f","l","a","g",":"," ","h","e","l","p"," ","r","e","q","u","e","s","t","e","d">>
InvalidValueText ==
    <<"i","n","v","a","l","i","d"," ","v","a","l","u","e"," ">>
ForFlagText ==
    <<" ","f","o","r"," ","f","l","a","g"," ","-">>
InvalidBoolValueText ==
    <<"i","n","v","a","l","i","d"," ","b","o","o","l","e","a","n"," ","v","a","l","u","e"," ">>
ForText ==
    <<" ","f","o","r"," ","-">>
NeedsArgText ==
    <<"f","l","a","g"," ","n","e","e","d","s"," ","a","n"," ","a","r","g","u","m","e","n","t",":"," ","-">>
BadSyntaxText ==
    <<"b","a","d"," ","f","l","a","g"," ","s","y","n","t","a","x",":"," ">>
TrueText ==
    <<"t","r","u","e">>
FalseText ==
    <<"f","a","l","s","e">>
RegexParsingText ==
    <<" ","p","a","r","s","i","n","g"," ","\"">>
RegexSyntaxText ==
    <<"\"",":"," ","i","n","v","a","l","i","d"," ","s","y","n","t","a","x">>
FnParseBool ==
    <<"P","a","r","s","e","B","o","o","l">>
FnParseInt ==
    <<"P","a","r","s","e","I","n","t">>
FnParseUint ==
    <<"P","a","r","s","e","U","i","n","t">>
FnParseFloat ==
    <<"P","a","r","s","e","F","l","o","a","t">>

NoErr == <<>>

HasPrefix(t, p) == Len(t) >= Len(p) /\ SubSeq(t, 1, Len(p)) = p

HasSuffix(t, p) == Len(t) >= Len(p) /\ SubSeq(t, Len(t) - Len(p) + 1, Len(t)) = p

Drop(t, n) == SubSeq(t, n + 1, Len(t))

\* The class \s of Go's regexp (RE2): tab, newline, form feed, return, space.
IsSpace(c) == c \in {" ", "\t", "\n", "\f", "\r"}

\* strconv.Quote on the texts of this model (none holds a quote, a backslash
\* or a control character, which Quote would escape).
Quote(t) == <<"\"">> \o t \o <<"\"">>

RECURSIVE Join(_, _)
\* strings.Join(elems, sep)
Join(elems, sep) ==
    IF elems = <<>> THEN <<>>
    ELSE IF Len(elems) = 1 THEN elems[1]
    ELSE elems[1] \o sep \o Join(Tail(elems), sep)

(* ------------------------------ numbers ------------------------------- *)

DigitChars == <<"0", "1", "2", "3", "4", "5", "6", "7", "8", "9">>

IsDigit(c) == \E i \in 1..10 : DigitChars[i] = c

DigitVal(c) == (CHOOSE i \in 1..10 : DigitChars[i] = c) - 1

RECURSIVE StripZeros(_)
\* A magnitude without leading zeros; zero is <<0>>.
StripZeros(m) ==
    IF Len(m) > 1 /\ m[1] = 0 THEN StripZeros(Tail(m))
    ELSE IF m = <<>> THEN <<0>> ELSE m

RECURSIVE MulAddCarry(_, _, _)
MulAddCarry(m, b, carry) ==
    IF m = <<>>
    THEN IF carry = 0 THEN <<>> ELSE MulAddCarry(<<>>, b, carry \div 10) \o <<carry % 10>>
    ELSE LET x == m[Len(m)] * b + carry
         IN  MulAddCarry(SubSeq(m, 1, Len(m) - 1), b, x \div 10) \o <<x % 10>>

\* m * b + d on magnitudes (b, d small).
MulAdd(m, b, d) == StripZeros(MulAddCarry(m, b, d))

RECURSIVE AddCarry(_, _, _)
AddCarry(a, b, carry) ==
    IF a = <<>> /\ b = <<>>
    THEN IF carry = 0 THEN <<>> ELSE <<carry>>
    ELSE LET x == (IF a = <<>> THEN 0 ELSE a[Len(a)])
                  + (IF b = <<>> THEN 0 ELSE b[Len(b)]) + carry
             ra == IF a = <<>> THEN <<>> ELSE SubSeq(a, 1, Len(a) - 1)
             rb == IF b = <<>> THEN <<>> ELSE SubSeq(b, 1, Len(b) - 1)
         IN  AddCarry(ra, rb, x \div 10) \o <<x % 10>>

AddMag(a, b) == StripZeros(AddCarry(a, b, 0))

RECURSIVE LexLess(_, _)
LexLess(a, b) ==
    IF a = <<>> THEN FALSE
    ELSE IF a[1] # b[1] THEN a[1] < b[1]
    ELSE LexLess(Tail(a), Tail(b))

\* a < b on magnitudes without leading zeros.
MagLess(a, b) ==
    IF Len(a) # Len(b) THEN Len(a) < Len(b) ELSE LexLess(a, b)

\* 1<<63 - 1, 1<<63 and 1<<64 - 1.
MaxInt64Mag == <<9,2,2,3,3,7,2,0,3,6,8,5,4,7,7,5,8,0,7>>

MinInt64Mag == <<9,2,2,3,3,7,2,0,3,6,8,5,4,7,7,5,8,0,8>>

MaxUint64Mag == <<1,8,4,4,6,7,4,4,0,7,3,7,0,9,5,5,1,6,1,5>>

(* ------------------------------- values ------------------------------- *)

\* One shape for every value: a sign and an integer magnitude (numbers,
\* durations in nanoseconds, booleans as 0 and 1), the decimals after the
\* point (floats) and a text (strings).
Value(neg, mag, frac, s) == [neg |-> neg, mag |-> mag, frac |-> frac, s |-> s]

IntVal(neg, mag) == Value(neg /\ mag # <<0>>, mag, <<>>, <<>>)

BoolVal(b) == Value(FALSE, IF b THEN <<1>> ELSE <<0>>, <<>>, <<>>)

StrVal(s) == Value(FALSE, <<0>>, <<>>, s)

FloatVal(neg, mag, frac) == Value(neg, mag, frac, <<>>)

Zero == IntVal(FALSE, <<0>>)

RECURSIVE DigitsText(_)
DigitsText(m) ==
    IF m = <<>> THEN <<>> ELSE <<DigitChars[m[1] + 1]>> \o DigitsText(Tail(m))

\* fmt.Sprintf("%v", value) of a TOML leaf: int64 in base 10, bool as true or
\* false, a string as it is, float64 in its shortest decimal form (%g without
\* an exponent: the floats of this model lie in [1e-4, 1e21)).
FormatValue(leaf) ==
    CASE leaf.k = "int" ->
           (IF leaf.v.neg THEN <<"-">> ELSE <<>>) \o DigitsText(leaf.v.mag)
      [] leaf.k = "bool" -> IF leaf.v.mag = <<1>> THEN TrueText ELSE FalseText
      [] leaf.k = "float" ->
           (IF leaf.v.neg THEN <<"-">> ELSE <<>>) \o DigitsText(leaf.v.mag)
           \o (IF leaf.v.frac = <<>> THEN <<>> ELSE <<".">> \o DigitsText(leaf.v.frac))
      [] OTHER -> leaf.v.s

(* ------------------------- strconv and time ---------------------------- *)

\* (*strconv.NumError).Error()
NumError(fn, num, what) == StrconvText \o fn \o ParsingText \o Quote(num) \o what

\* A parser's result: the value returned and the error, NoErr for nil.
Parsed(val, err) == [val |-> val, err |-> err]

\* strconv.ParseBool
ParseBool(s) ==
    IF s \in {<<"1">>, <<"t">>, <<"T">>, <<"T","R","U","E">>, TrueText, <<"T","r","u","e">>}
    THEN Parsed(BoolVal(TRUE), NoErr)
    ELSE IF s \in {<<"0">>, <<"f">>, <<"F">>, <<"F","A","L","S","E">>, FalseText,
                   <<"F","a","l","s","e">>}
    THEN Parsed(BoolVal(FALSE), NoErr)
    ELSE Parsed(BoolVal(FALSE), NumError(FnParseBool, s, InvalidSyntaxText))

HexChars == <<"a", "b", "c", "d", "e", "f">>

HexUpperChars == <<"A", "B", "C", "D", "E", "F">>

\* The value of a digit character, 99 for any other character.
BaseDigitVal(c) ==
    IF IsDigit(c) THEN DigitVal(c)
    ELSE IF \E i \in 1..6 : HexChars[i] = c
    THEN 9 + (CHOOSE i \in 1..6 : HexChars[i] = c)
    ELSE IF \E i \in 1..6 : HexUpperChars[i] = c
    THEN 9 + (CHOOSE i \in 1..6 : HexUpperChars[i] = c)
    ELSE 99

RECURSIVE FoldDigits(_, _, _)
\* The magnitude of the digits s in the given base, continuing from acc.
FoldDigits(s, base, acc) ==
    IF s = <<>> THEN acc
    ELSE FoldDigits(Tail(s), base, MulAdd(acc, base, BaseDigitVal(s[1])))

\* strconv.ParseUint(s, 0, 64) without its error's Func and Num: the kind of
\* failure is "syntax", "range" or "" for none.  The digits are read from the
\* left; the first character that is no digit of the base is a syntax error
\* unless the digits before it have already overflowed.  (In base 10 the
\* magnitude n*10 + d of the loop is the digits read.)
ParseUintCore(s) ==
    IF s = <<>> THEN [mag |-> <<0>>, fail |-> "syntax"]
    ELSE LET hex  == Len(s) > 1 /\ s[1] = "0" /\ s[2] \in {"x", "X"}
             base == IF hex THEN 16 ELSE IF s[1] = "0" THEN 8 ELSE 10
             body == IF hex THEN Drop(s, 2) ELSE s
             bad  == {i \in 1..Len(body) : BaseDigitVal(body[i]) >= base}
             stop == IF bad = {} THEN Len(body) + 1
                     ELSE CHOOSE i \in bad : \A j \in bad : i <= j
             m    == IF base = 10
                     THEN StripZeros([i \in 1..(stop - 1) |-> BaseDigitVal(body[i])])
                     ELSE FoldDigits(SubSeq(body, 1, stop - 1), base, <<0>>)
         IN  IF body = <<>> THEN [mag |-> <<0>>, fail |-> "syntax"]
             ELSE IF MagLess(MaxUint64Mag, m) THEN [mag |-> MaxUint64Mag, fail |-> "range"]
             ELSE IF stop <= Len(body) THEN [mag |-> <<0>>, fail |-> "syntax"]
             ELSE [mag |-> m, fail |-> ""]

\* strconv.ParseUint(s, 0, 64)
ParseUint(s) ==
    LET r == ParseUintCore(s)
    IN  Parsed(IntVal(FALSE, r.mag),
               IF r.fail = "syntax" THEN NumError(FnParseUint, s, InvalidSyntaxText)
               ELSE IF r.fail = "range" THEN NumError(FnParseUint, s, OutOfRangeText)
               ELSE NoErr)

\* strconv.ParseInt(s, 0, 64)
ParseInt(s) ==
    IF s = <<>> THEN Parsed(Zero, NumError(FnParseInt, s, InvalidSyntaxText))
    ELSE LET neg  == s[1] = "-"
             body == IF s[1] \in {"+", "-"} THEN Tail(s) ELSE s
             r    == ParseUintCore(body)
         IN  IF r.fail = "syntax"
             THEN Parsed(Zero, NumError(FnParseInt, s, InvalidSyntaxText))
             ELSE IF ~neg /\ ~MagLess(r.mag, MinInt64Mag)
             THEN Parsed(IntVal(FALSE, MaxInt64Mag), NumError(FnParseInt, s, OutOfRangeText))
             ELSE IF neg /\ MagLess(MinInt64Mag, r.mag)
             THEN Parsed(IntVal(TRUE, MinInt64Mag), NumError(FnParseInt, s, OutOfRangeText))
             ELSE Parsed(IntVal(neg, r.mag), NoErr)

RECURSIVE StripTrailingZeros(_)
StripTrailingZeros(m) ==
    IF m # <<>> /\ m[Len(m)] = 0 THEN StripTrailingZeros(SubSeq(m, 1, Len(m) - 1)) ELSE m

\* strconv.ParseFloat(s, 64) on decimal notation: an optional sign, digits,
\* an optional point and digits.  (Exponents, hexadecimal floats, inf and nan
\* are outside the texts of this model.)
ParseFloat(s) ==
    LET body == IF s # <<>> /\ s[1] \in {"+", "-"} THEN Tail(s) ELSE s
        dots == {i \in 1..Len(body) : body[i] = "."}
        dot  == IF dots = {} THEN Len(body) + 1
                ELSE CHOOSE i \in dots : \A j \in dots : i <= j
        ip   == SubSeq(body, 1, dot - 1)
        fp   == SubSeq(body, dot + 1, Len(body))
        ok   == /\ Len(ip) + Len(fp) >= 1
                /\ \A i \in 1..Len(ip) : IsDigit(ip[i])
                /\ \A i \in 1..Len(fp) : IsDigit(fp[i])
        mag  == StripZeros([i \in 1..Len(ip) |-> DigitVal(ip[i])])
        frac == StripTrailingZeros([i \in 1..Len(fp) |-> DigitVal(fp[i])])
    IN  IF ok
        THEN Parsed(FloatVal(s[1] = "-", mag, frac), NoErr)
        ELSE Parsed(FloatVal(FALSE, <<0>>, <<>>), NumError(FnParseFloat, s, InvalidSyntaxText))

\* The units of time.ParseDuration as a small factor and a count of decimal
\* zeros: nanoseconds per unit.
UnitFactor(u) ==
    CASE u = <<"n","s">> -> [mul |-> 1, zeros |-> 0]
      [] u = <<"u","s">> -> [mul |-> 1, zeros |-> 3]
      [] u = <<"m","s">> -> [mul |-> 1, zeros |-> 6]
      [] u = <<"s">>     -> [mul |-> 1, zeros |-> 9]
      [] u = <<"m">>     -> [mul |-> 6, zeros |-> 10]
      [] u = <<"h">>     -> [mul |-> 36, zeros |-> 11]
      [] OTHER           -> [mul |-> 0, zeros |-> 0]

RECURSIVE LeadCount(_, _)
\* How many leading characters of s are (want = TRUE) or are not digits or a
\* point.
LeadCount(s, want) ==
    IF s # <<>> /\ ((IsDigit(s[1]) \/ s[1] = ".") = want)
    THEN 1 + LeadCount(Tail(s), want) ELSE 0

RECURSIVE DurationSum(_, _, _)
\* The loop of time.ParseDuration over the components <digits><unit> left in
\* s (fractions such as 1.5s are outside the texts of this model).
DurationSum(s, acc, orig) ==
    IF s = <<>> THEN [mag |-> acc, err |-> NoErr]
    ELSE LET nd   == LeadCount(s, TRUE)
             num  == SubSeq(s, 1, nd)
             rest == Drop(s, nd)
             nu   == LeadCount(rest, FALSE)
             unit == SubSeq(rest, 1, nu)
             f    == UnitFactor(unit)
             m    == StripZeros(MulAdd(FoldDigits(num, 10, <<0>>), f.mul, 0)
                                \o [i \in 1..f.zeros |-> 0])
             sum  == AddMag(acc, m)
         IN  IF nd = 0 \/ \E i \in 1..nd : num[i] = "."
             THEN [mag |-> <<0>>, err |-> InvalidDurationText \o orig]
             ELSE IF nu = 0
             THEN [mag |-> <<0>>, err |-> MissingUnitText \o orig]
             ELSE IF f.mul = 0
             THEN [mag |-> <<0>>, err |-> UnknownUnitText \o unit \o InDurationText \o orig]
             ELSE IF MagLess(MaxInt64Mag, sum)
             THEN [mag |-> <<0>>, err |-> InvalidDurationText \o orig]
             ELSE DurationSum(Drop(rest, nu), sum, orig)

\* time.ParseDuration
ParseDuration(s) ==
    LET neg  == s # <<>> /\ s[1] = "-"
        body == IF s # <<>> /\ s[1] \in {"+", "-"} THEN Tail(s) ELSE s
        r    == DurationSum(body, <<0>>, s)
    IN  IF body = <<"0">> THEN Parsed(Zero, NoErr)
        ELSE IF body = <<>> THEN Parsed(Zero, InvalidDurationText \o s)
        ELSE Parsed(IntVal(neg, r.mag), r.err)

(* ------------------------------- flag ---------------------------------- *)

\* The types of the per-type declarators.
Types == {"bool", "int", "int64", "uint", "uint64", "string", "float64", "duration"}

\* flag.Value.Set of the value type of a Setting: the strconv or time parser
\* of the type; its error is returned as it is.  The parser's result is
\* stored whether or not it failed (*i = intValue(v); return err).
ValueSet(type, s) ==
    CASE type = "bool" -> ParseBool(s)
      [] type \in {"int", "int64"} -> ParseInt(s)
      [] type \in {"uint", "uint64"} -> ParseUint(s)
      [] type = "float64" -> ParseFloat(s)
      [] type = "duration" -> ParseDuration(s)
      [] OTHER -> Parsed(StrVal(s), NoErr)

\* A Setting: flag.Flag with its Value and its default (DefValue).
Flag(type, value) == [type |-> type, value |-> value, def |-> value]

\* A Set that defines a string flag for a name that has none.
FlagSetSetDefining(formal, name, s) ==
    IF name \notin DOMAIN formal
    THEN [formal |-> [n \in DOMAIN formal \cup {name} |->
                        IF n = name THEN Flag("string", StrVal(s)) ELSE formal[n]],
          err |-> NoErr]
    ELSE CHOOSE out \in {[formal |-> [formal EXCEPT ![name].value = r.val], err |-> r.err]
                         : r \in {ValueSet(formal[name].type, s)}} : TRUE

\* (*flag.FlagSet).Set(name, value) on the map formal of a FlagSet: the map
\* after the call and the error returned.
FlagSetSet(formal, name, s) ==
    IF name \notin DOMAIN formal
    THEN [formal |-> formal, err |-> NoSuchFlagText \o name]
    ELSE CHOOSE out \in {[formal |-> [formal EXCEPT ![name].value = r.val], err |-> r.err]
                         : r \in {ValueSet(formal[name].type, s)}} : TRUE

(* --------------------------- buildLoadError ---------------------------- *)

RECURSIVE NonSpaceRun(_)
\* The longest prefix of t without a character of \s.
NonSpaceRun(t) ==
    IF t = <<>> \/ IsSpace(t[1]) THEN <<>> ELSE <<t[1]>> \o NonSpaceRun(Tail(t))

\* missingFlag: ^no such flag -([^\s]+)
MissingFlagMatch(t) ==
    HasPrefix(t, NoSuchFlagText) /\ NonSpaceRun(Drop(t, Len(NoSuchFlagText))) # <<>>

\* missingFlag.ReplaceAllString(t, "$1 is not a valid config setting"): the
\* match, which is anchored at the start, is replaced and the text after it
\* is kept.
MissingFlagReplace(t) ==
    LET name == NonSpaceRun(Drop(t, Len(NoSuchFlagText)))
    IN  name \o NotValidSettingText \o Drop(t, Len(NoSuchFlagText) + Len(name))

\* invalidSyntax: ^.+ parsing "(.+)": invalid syntax$   (. is any character
\* but a newline, $ the end of the text)
InvalidSyntaxMatch(t) ==
    /\ HasSuffix(t, RegexSyntaxText)
    /\ \A i \in 1..Len(t) : t[i] # "\n"
    /\ \E i \in 2..Len(t) :
          /\ i + Len(RegexParsingText) <= Len(t) - Len(RegexSyntaxText)
          /\ SubSeq(t, i, i + Len(RegexParsingText) - 1) = RegexParsingText

\* A buildLoadError that returns nil: a load whose failing leaf is not
\* reported.
buildLoadErrorNil(path, err) == NoErr

\* buildLoadError(path, err): the text of the error a load returns for the
\* error err of Set on the Setting path.
buildLoadError(path, err) ==
    IF MissingFlagMatch(err) THEN MissingFlagReplace(err)
    ELSE IF InvalidSyntaxMatch(err) THEN ValueForText \o path \o IsInvalidText
    ELSE err

(* ---------------------------- loadTomlTree ----------------------------- *)

Dot == <<".">>

\* A Load that forgets the error of Set, so that the traversal goes on.
LoadWithoutError(formal, err, attempts) ==
    [formal |-> formal, err |-> NoErr, attempts |-> attempts]

\* The progress of one load: the map of the Set, the error that ended the
\* load (NoErr while none has), and the calls of Set made so far, each as
\* <<name, text>>.
Load(formal, err, attempts) == [formal |-> formal, err |-> err, attempts |-> attempts]

\* Keys without the keys of the tables: a load that does not descend.
KeysOfLeaves(tree) == {key \in DOMAIN tree : ~tree[key].isTree}

\* tree.Keys(): the keys of a table, in no fixed order (a Go map).
Keys(tree) == DOMAIN tree

\* A leaf named by its own key, without the keys of the tables above it.
LeafPathKeyOnly(path, key) == key

\* strings.Join(append(path, key), ".")
LeafPath(path, key) == Join(Append(path, key), Dot)

\* A loop in which only the first leaf visited is assigned: what a load
\* would be if a leaf's assignment depended on the leaves visited before it.
SetLeafFirstWins(st, fullPath, leaf) ==
    IF st.attempts # <<>>
    THEN Load(st.formal, NoErr, Append(st.attempts, <<fullPath, FormatValue(leaf)>>))
    ELSE CHOOSE out \in
           {Load(r.formal,
                 IF r.err # NoErr THEN buildLoadError(fullPath, r.err) ELSE NoErr,
                 Append(st.attempts, <<fullPath, FormatValue(leaf)>>))
            : r \in {FlagSetSet(st.formal, fullPath, FormatValue(leaf))}} : TRUE

\* err := c.Set(fullPath, fmt.Sprintf("%v", value)) and, if it failed,
\* return buildLoadError(fullPath, err)
SetLeaf(st, fullPath, leaf) ==
    CHOOSE out \in
      {Load(r.formal,
            IF r.err # NoErr THEN buildLoadError(fullPath, r.err) ELSE NoErr,
            Append(st.attempts, <<fullPath, FormatValue(leaf)>>))
       : r \in {FlagSetSet(st.formal, fullPath, FormatValue(leaf))}} : TRUE

RECURSIVE loadTomlTree(_, _, _, _)
\* Every way the loop over tree.Keys() can go on from st with the keys todo
\* still to visit.  A document is a function from keys to nodes; a node is a
\* table (isTree, sub) or a leaf.  tree.Get(key) is the node of the key (the
\* keys of this model hold no dot, which Get would split at).  The first
\* error ends the loop of every level.
loadTomlTree(st, tree, path, todo) ==
    IF todo = {} THEN {st}
    ELSE UNION { LET node == tree[key]
                     here == IF node.isTree
                             THEN loadTomlTree(st, node.sub, Append(path, key),
                                               Keys(node.sub))
                             ELSE {SetLeaf(st, LeafPath(path, key), node.leaf)}
                 IN  UNION { IF o.err # NoErr THEN {o}
                             ELSE loadTomlTree(o, tree, path, todo \ {key}) : o \in here }
               : key \in todo }

(* ----------------------------- documents ------------------------------- *)

\* A leaf of a TOML document as go-toml holds it: int64, bool, string or
\* float64.
Leaf(k, v) == [k |-> k, v |-> v]

IntLeaf(mag) == Leaf("int", IntVal(FALSE, mag))

StrLeaf(s) == Leaf("string", StrVal(s))

NoLeaf == Leaf("none", Zero)

LeafNode(leaf) == [isTree |-> FALSE, leaf |-> leaf, sub |-> <<>>]

TreeNode(sub) == [isTree |-> TRUE, leaf |-> NoLeaf, sub |-> sub]

\* An entry of a document: a leaf or (k = "table") an empty table at a path
\* of keys.
Entry(path, leaf) == [path |-> path, leaf |-> leaf]

RECURSIVE TreeOf(_)
\* The document with the entries es.
TreeOf(es) ==
    [key \in {e.path[1] : e \in es} |->
        LET under == {e \in es : e.path[1] = key}
            top   == {e \in under : Len(e.path) = 1}
            rest  == {Entry(Tail(e.path), e.leaf) : e \in under \ top}
        IN  IF top # {} /\ (CHOOSE e \in top : TRUE).leaf.k # "table"
            THEN LeafNode((CHOOSE e \in top : TRUE).leaf)
            ELSE TreeNode(TreeOf(rest))]

IsPrefix(p, q) == Len(p) <= Len(q) /\ SubSeq(q, 1, Len(p)) = p

\* Entries that one document can hold: a key has one value, and a leaf or an
\* empty table has nothing below it.
Consistent(es) ==
    \A e1, e2 \in es : e1 # e2 => ~IsPrefix(e1.path, e2.path)

\* The keys of the deepest leaf: MaxDepth - 1 tables s and the key n.
DeepPath == [i \in 1..MaxDepth |-> IF i = MaxDepth THEN <<"n">> ELSE <<"s">>]

Nines == [i \in 1..20 |-> "9"]

\* The entries documents are made of.
EntryPool ==
    { Entry(<< <<"c">> >>, StrLeaf(<<"U","S","A">>)),
      Entry(<< <<"t">>, <<"e">> >>, Leaf("bool", BoolVal(TRUE))),
      Entry(<< <<"t">>, <<"p">> >>, StrLeaf(Nines)),
      Entry(<< <<"d">> >>, StrLeaf(<<"z">>)),
      Entry(<< <<"a"," ","c">> >>, IntLeaf(<<1>>)),
      Entry(<< <<"t">> >>, Leaf("table", Zero)),
      Entry(DeepPath, IntLeaf(<<7>>)) }

RECURSIVE SubsetsUpTo(_, _)
\* The subsets of S with at most n elements.
SubsetsUpTo(S, n) ==
    IF n = 0 THEN {{}}
    ELSE LET smaller == SubsetsUpTo(S, n - 1)
         IN  smaller \cup {T \cup {x} : T \in smaller, x \in S}

\* The documents loaded: toml.Load's trees.
Docs == {TreeOf(es) : es \in {T \in SubsetsUpTo(EntryPool, MaxLeaves) : Consistent(T)}}

(* ------------------------------- state --------------------------------- *)

VARIABLES
    sets,      \* the config.Sets of the process: name -> [handling, formal]
    declared,  \* name of a Set -> the names declared with its declarators
    proc,      \* "running", "exited" (os.Exit) or "panicked"
    last,      \* the last load: its receiver, input, result and Set calls, and
               \* (good) how many loads in a row have returned no error
    nloads     \* how many loads have been made

vars == <<sets, declared, proc, last, nloads>>

\* flag.ErrorHandling
ContinueOnError == "ContinueOnError"

ExitOnError == "ExitOnError"

PanicOnError == "PanicOnError"

Policies == {ContinueOnError, ExitOnError, PanicOnError}

\* A Parse that returns its error under every policy.
HandledByReturning(errorHandling) == "running"

\* What Parse does with the error of parseOne: return it, os.Exit(2), or
\* panic(err).
Handled(errorHandling) ==
    CASE errorHandling = ContinueOnError -> "running"
      [] errorHandling = ExitOnError -> "exited"
      [] OTHER -> "panicked"

\* New(name, errorHandling)
New(errorHandling) == [handling |-> errorHandling, formal |-> <<>>]

\* var CommandLine = New(os.Args[0], flag.ExitOnError): the name of the
\* package's global Set in sets.
CommandLine == "CommandLine"

\* The Set that Set.Duration registers with: the package's global Set.
globalConfig == CommandLine

NoCall ==
    [op |-> "none", set |-> "", ok |-> TRUE, doc |-> <<>>, path |-> <<>>, args |-> <<>>,
     err |-> NoErr, attempts |-> <<>>, good |-> 0]

\* The state after the package's var block and the program's: CommandLine
\* and the program's Sets "S" and "T", each without a Setting.
Init ==
    /\ sets = [s \in {CommandLine, "S", "T"} |->
                 IF s = CommandLine THEN New(ExitOnError)
                 ELSE IF s = "S" THEN New(ContinueOnError)
                 ELSE New(PanicOnError)]
    /\ declared = [s \in {CommandLine, "S", "T"} |-> {}]
    /\ proc = "running"
    /\ last = NoCall
    /\ nloads = 0

(* ---------------------------- declarators ------------------------------ *)

Declarators ==
    {"Bool", "BoolVar", "Int", "IntVar", "Int64", "Int64Var", "Uint", "UintVar",
     "Uint64", "Uint64Var", "String", "StringVar", "Float64", "Float64Var",
     "Duration", "DurationVar"}

\* The type of the flag.FlagSet declarator that a declarator of Set calls.
DeclType(decl) ==
    CASE decl \in {"Bool", "BoolVar"} -> "bool"
      [] decl \in {"Int", "IntVar"} -> "int"
      [] decl \in {"Int64", "Int64Var"} -> "int64"
      [] decl \in {"Uint", "UintVar"} -> "uint"
      [] decl \in {"Uint64", "Uint64Var"} -> "uint64"
      [] decl \in {"String", "StringVar"} -> "string"
      [] decl \in {"Float64", "Float64Var"} -> "float64"
      [] OTHER -> "duration"

\* The Set whose FlagSet a declarator called on the Set c registers with:
\* c.FlagSet, but globalConfig.FlagSet in Set.Duration.
DeclTarget(c, decl) == IF decl = "Duration" THEN globalConfig ELSE c

\* (*flag.FlagSet).Var: a new entry of formal (a name already in it panics,
\* see Declare).
FlagSetVar(formal, name, flag) ==
    [n \in DOMAIN formal \cup {name} |-> IF n = name THEN flag ELSE formal[n]]

\* sets after the declarator decl of the Set c with a new name and a default.
DeclareOn(ss, c, decl, name, value) ==
    LET target == DeclTarget(c, decl)
    IN  [ss EXCEPT ![target].formal = FlagSetVar(@, name, Flag(DeclType(decl), value))]

(* ------------------------------- loads --------------------------------- *)

\* What a call leaves: the map of the Set, the error returned (NoErr for
\* nil), the calls of Set it made, and whether the process still runs.
Outcome(formal, err, attempts, state) ==
    [formal |-> formal, err |-> err, attempts |-> attempts, proc |-> state]

\* A TOML string as toml.Load sees it: not valid TOML, or the tree of a
\* document.
Strings == {[ok |-> FALSE, tree |-> <<>>]} \cup {[ok |-> TRUE, tree |-> d] : d \in Docs}

\* A ParseString that puts every Setting back to its default before it loads.
ParseStringFromDefaults(c, str) ==
    IF ~str.ok
    THEN {Outcome(c.formal, NotValidTomlText, <<>>, "running")}
    ELSE {Outcome(o.formal, o.err, o.attempts, "running") :
            o \in loadTomlTree(Load([n \in DOMAIN c.formal |->
                                       [c.formal[n] EXCEPT !.value = c.formal[n].def]],
                                    NoErr, <<>>),
                               str.tree, <<>>, Keys(str.tree))}

\* (c *Set) ParseString(str)
ParseStringOutcomes(c, str) ==
    IF ~str.ok
    THEN {Outcome(c.formal, NotValidTomlText, <<>>, "running")}
    ELSE {Outcome(o.formal, o.err, o.attempts, "running") :
            o \in loadTomlTree(Load(c.formal, NoErr, <<>>), str.tree, <<>>, Keys(str.tree))}

\* The files of the program: a path that cannot be read, a file that is not
\* valid TOML, and files that hold a document.
Files ==
    {[path |-> <<"m">>, readable |-> FALSE, str |-> [ok |-> FALSE, tree |-> <<>>]],
     [path |-> <<"b">>, readable |-> TRUE, str |-> [ok |-> FALSE, tree |-> <<>>]]}
    \cup {[path |-> <<"g">>, readable |-> TRUE,
            str |-> [ok |-> TRUE, tree |-> TreeOf({Entry(<< <<"c">> >>, StrLeaf(<<"U","S","A">>))})]]}

\* A read error with the text of the error for a file that is not valid TOML.
ReadFileErrorAsInvalid(path) == path \o NotValidTomlFileText

\* ioutil.ReadFile's error for a path that does not exist.
ReadFileError(path) == OpenText \o path \o NoSuchFileText

\* A Parse that treats its error as ParseArguments does, by the policy.
ParseActingOnPolicy(c, file) ==
    IF ~file.readable
    THEN {Outcome(c.formal, ReadFileError(file.path), <<>>, Handled(c.handling))}
    ELSE IF ~file.str.ok
    THEN {Outcome(c.formal, file.path \o NotValidTomlFileText, <<>>, Handled(c.handling))}
    ELSE {Outcome(o.formal, o.err, o.attempts,
                  IF o.err = NoErr THEN "running" ELSE Handled(c.handling)) :
            o \in loadTomlTree(Load(c.formal, NoErr, <<>>), file.str.tree, <<>>,
                               Keys(file.str.tree))}

\* (c *Set) Parse(path), file being what is at the path
ParseOutcomes(c, file) ==
    IF ~file.readable
    THEN {Outcome(c.formal, ReadFileError(file.path), <<>>, "running")}
    ELSE IF ~file.str.ok
    THEN {Outcome(c.formal, file.path \o NotValidTomlFileText, <<>>, "running")}
    ELSE {Outcome(o.formal, o.err, o.attempts, "running") :
            o \in loadTomlTree(Load(c.formal, NoErr, <<>>), file.str.tree, <<>>,
                               Keys(file.str.tree))}

\* The largest number of loads in a run.
MaxLoads == 2

ParseString(c, str) ==
    /\ proc = "running"
    /\ c \in DOMAIN sets
    /\ nloads < MaxLoads
    /\ \E o \in ParseStringOutcomes(sets[c], str) :
          /\ sets' = [sets EXCEPT ![c].formal = o.formal]
          /\ proc' = o.proc
          /\ last' = [op |-> "ParseString", set |-> c, ok |-> str.ok, doc |-> str.tree,
                      path |-> <<>>, args |-> <<>>, err |-> o.err, attempts |-> o.attempts,
                      good |-> IF o.err = NoErr THEN last.good + 1 ELSE 0]
    /\ nloads' = nloads + 1
    /\ UNCHANGED declared

Parse(c, file) ==
    /\ proc = "running"
    /\ c \in DOMAIN sets
    /\ nloads < MaxLoads
    /\ \E o \in ParseOutcomes(sets[c], file) :
          /\ sets' = [sets EXCEPT ![c].formal = o.formal]
          /\ proc' = o.proc
          /\ last' = [op |-> "Parse", set |-> c, ok |-> file.readable /\ file.str.ok,
                      doc |-> file.str.tree, path |-> file.path, args |-> <<>>,
                      err |-> o.err, attempts |-> o.attempts,
                      good |-> IF o.err = NoErr THEN last.good + 1 ELSE 0]
    /\ nloads' = nloads + 1
    /\ UNCHANGED declared

(* ----------------- a program with its Settings declared ---------------- *)

FiveSeconds == IntVal(FALSE, <<5,0,0,0,0,0,0,0,0,0>>)

Unknown == StrVal(<<"U">>)

\* The declarations of the program: the Set, the declarator, the name and
\* the default.
Program ==
    << <<"S", "String", <<"c">>, Unknown>>,
       <<"S", "Bool", <<"t",".","e">>, BoolVal(FALSE)>>,
       <<"S", "IntVar", <<"t",".","p">>, Zero>>,
       <<"S", "DurationVar", <<"d">>, FiveSeconds>>,
       <<"S", "Uint64", Join(DeepPath, Dot), Zero>>,
       <<"S", "StringVar", <<"t">>, Unknown>>,
       <<CommandLine, "String", <<"c">>, Unknown>> >>

RECURSIVE DeclareAll(_, _)
DeclareAll(ss, calls) ==
    IF calls = <<>> THEN ss
    ELSE DeclareAll(DeclareOn(ss, calls[1][1], calls[1][2], calls[1][3], calls[1][4]),
                    Tail(calls))

InitLoad ==
    /\ sets = DeclareAll([s \in {CommandLine, "S"} |->
                             IF s = CommandLine THEN New(ExitOnError)
                             ELSE New(ContinueOnError)],
                          Program)
    /\ declared = [s \in {CommandLine, "S"} |->
                     {Program[i][3] : i \in {j \in 1..Len(Program) : Program[j][1] = s}}]
    /\ proc = "running"
    /\ last = NoCall
    /\ nloads = 0

NextLoad ==
    \/ \E str \in Strings : ParseString("S", str)
    \/ \E file \in Files : Parse("S", file)

SpecLoad == InitLoad /\ [][NextLoad]_vars


(* ---------------------------- ParseArguments --------------------------- *)

\* The index of the first '=' of a flag's text after its first character
\* (equals cannot be first), or 0.
EqualsAt(name) ==
    LET at == {i \in 2..Len(name) : name[i] = "="}
    IN  IF at = {} THEN 0 ELSE CHOOSE i \in at : \A j \in at : i <= j

\* A step of (*flag.FlagSet).parseOne: whether a flag was seen, the error,
\* and f.formal and f.args after it.
Step(seen, err, formal, args) == [seen |-> seen, err |-> err, formal |-> formal, args |-> args]

\* The name and the value of a flag's text (after its dashes): name=value
\* has a value, name has none.
SplitFlag(word) ==
    CHOOSE f \in {[name     |-> IF eq # 0 THEN SubSeq(word, 1, eq - 1) ELSE word,
                   hasValue |-> eq # 0,
                   value    |-> IF eq # 0 THEN Drop(word, eq) ELSE <<>>]
                  : eq \in {EqualsAt(word)}} : TRUE

\* parseOne once it has the name of a flag and what follows it in f.args:
\* the flag is looked up and set.
SetFlag(formal, f, rest) ==
    IF f.name \notin DOMAIN formal
    THEN IF f.name \in {<<"h","e","l","p">>, <<"h">>}
         THEN Step(FALSE, ErrHelp, formal, rest)
         ELSE Step(FALSE, NotDefinedText \o f.name, formal, rest)
    ELSE IF formal[f.name].type = "bool"
    THEN IF f.hasValue
         THEN CHOOSE st \in
                {IF r.err # NoErr
                 THEN Step(FALSE,
                           InvalidBoolValueText \o Quote(f.value) \o ForText \o f.name
                             \o <<":"," ">> \o r.err,
                           r.formal, rest)
                 ELSE Step(TRUE, NoErr, r.formal, rest)
                 : r \in {FlagSetSet(formal, f.name, f.value)}} : TRUE
         ELSE Step(TRUE, NoErr, FlagSetSet(formal, f.name, TrueText).formal, rest)
    ELSE IF ~f.hasValue /\ rest = <<>>
    THEN Step(FALSE, NeedsArgText \o f.name, formal, rest)
    ELSE LET given == IF f.hasValue THEN f.value ELSE rest[1]
             left  == IF f.hasValue THEN rest ELSE Tail(rest)
         IN  CHOOSE st \in
               {IF r.err # NoErr
                THEN Step(FALSE,
                          InvalidValueText \o Quote(given) \o ForFlagText \o f.name
                            \o <<":"," ">> \o r.err,
                          r.formal, left)
                ELSE Step(TRUE, NoErr, r.formal, left)
                : r \in {FlagSetSet(formal, f.name, given)}} : TRUE

\* (*flag.FlagSet).parseOne on f.formal and f.args
parseOne(formal, args) ==
    IF args = <<>> THEN Step(FALSE, NoErr, formal, args)
    ELSE LET s == args[1]
         IN  IF Len(s) = 0 \/ s[1] # "-" \/ Len(s) = 1
             THEN Step(FALSE, NoErr, formal, args)
             ELSE IF s[2] = "-" /\ Len(s) = 2
             THEN Step(FALSE, NoErr, formal, Tail(args))
             ELSE LET word == IF s[2] = "-" THEN Drop(s, 2) ELSE Drop(s, 1)
                  IN  IF Len(word) = 0 \/ word[1] = "-" \/ word[1] = "="
                      THEN Step(FALSE, BadSyntaxText \o s, formal, args)
                      ELSE CHOOSE st \in {SetFlag(formal, f, Tail(args))
                                          : f \in {SplitFlag(word)}} : TRUE

RECURSIVE FlagSetParse(_, _)
\* The loop of (*flag.FlagSet).Parse(arguments): parseOne until it has seen
\* no flag; the map and the error it stopped with (NoErr: no error).
FlagSetParse(formal, args) ==
    CHOOSE out \in {IF r.seen THEN FlagSetParse(r.formal, r.args)
                    ELSE [formal |-> r.formal, err |-> r.err]
                    : r \in {parseOne(formal, args)}} : TRUE

\* (c *Set) ParseArguments(arguments)
ParseArgumentsOutcomes(c, args) ==
    {Outcome(r.formal, r.err, <<>>,
             IF r.err = NoErr THEN "running" ELSE Handled(c.handling))
     : r \in {FlagSetParse(c.formal, args)}}

ParseArguments(c, args) ==
    /\ proc = "running"
    /\ c \in DOMAIN sets
    /\ nloads < MaxLoads
    /\ \E o \in ParseArgumentsOutcomes(sets[c], args) :
          /\ sets' = [sets EXCEPT ![c].formal = o.formal]
          /\ proc' = o.proc
          /\ last' = [op |-> "ParseArguments", set |-> c, ok |-> TRUE, doc |-> <<>>,
                      path |-> <<>>, args |-> args, err |-> o.err, attempts |-> <<>>,
                      good |-> 0]
    /\ nloads' = nloads + 1
    /\ UNCHANGED declared

(* ------------------ declarations and loads of a process ---------------- *)

\* How many Settings the Sets hold.
NumSettings ==
    Cardinality(UNION {{<<s, n>> : n \in DOMAIN sets[s].formal} : s \in DOMAIN sets})

\* A declarator of the Set c: (c *Set) Bool(name, value), ..., DurationVar.
\* flag.FlagSet's Var panics when the name is defined already.
Declare(c, decl, name, value) ==
    /\ proc = "running"
    /\ c \in DOMAIN sets
    /\ NumSettings < MaxDecl
    /\ IF name \in DOMAIN sets[DeclTarget(c, decl)].formal
       THEN /\ proc' = "panicked"
            /\ UNCHANGED <<sets, declared>>
       ELSE /\ sets' = DeclareOn(sets, c, decl, name, value)
            /\ declared' = [declared EXCEPT ![c] = @ \cup {name}]
            /\ UNCHANGED proc
    /\ UNCHANGED <<last, nloads>>

\* The default a program gives a Setting of a type.
DefaultOf(type) ==
    CASE type = "bool" -> BoolVal(TRUE)
      [] type = "string" -> Unknown
      [] type = "duration" -> FiveSeconds
      [] type = "float64" -> FloatVal(FALSE, <<1>>, <<5>>)
      [] OTHER -> IntVal(FALSE, <<1>>)

\* The TOML strings of the process: c = 0, a value every type parses.
ProcessStrings ==
    {[ok |-> TRUE, tree |-> TreeOf({Entry(<< <<"c">> >>, IntLeaf(<<0>>))})]}

\* The argument lists of the process.
ProcessArgs == {<<<<"-","c","=","0">>>>, <<<<"-","x","=","1">>>>}

Next ==
    \/ \E c \in DOMAIN sets, decl \in Declarators :
          Declare(c, decl, <<"c">>, DefaultOf(DeclType(decl)))
    \/ \E c \in DOMAIN sets, str \in ProcessStrings : ParseString(c, str)
    \/ \E c \in DOMAIN sets, file \in Files : Parse(c, file)
    \/ \E c \in DOMAIN sets, args \in ProcessArgs : ParseArguments(c, args)

Spec == Init /\ [][Next]_vars

(* ------------- a program that loads its argument lists ----------------- *)

NameText == <<"n","a","m","e">>

\* The declarations of the program: the Settings name, p, b and d on Sets of
\* the three policies, and on the Set "H" also h and help.
ArgsProgram ==
    << <<CommandLine, "String", NameText, Unknown>>,
       <<CommandLine, "Int", <<"p">>, Zero>>,
       <<CommandLine, "Bool", <<"b">>, BoolVal(FALSE)>>,
       <<CommandLine, "DurationVar", <<"d">>, FiveSeconds>>,
       <<"S", "StringVar", NameText, Unknown>>,
       <<"S", "IntVar", <<"p">>, Zero>>,
       <<"S", "BoolVar", <<"b">>, BoolVal(FALSE)>>,
       <<"S", "DurationVar", <<"d">>, FiveSeconds>>,
       <<"T", "String", NameText, Unknown>>,
       <<"T", "Int64", <<"p">>, Zero>>,
       <<"T", "Bool", <<"b">>, BoolVal(FALSE)>>,
       <<"T", "DurationVar", <<"d">>, FiveSeconds>>,
       <<"H", "String", NameText, Unknown>>,
       <<"H", "Bool", <<"h">>, BoolVal(FALSE)>>,
       <<"H", "String", <<"h","e","l","p">>, Unknown>> >>

\* The argument lists of the program.
ArgLists ==
    { <<<<"-","-","n","a","m","e","=","v","a","l","u","e">>>>,
      <<<<"-","n","a","m","e">>, <<"v","a","l","u","e">>>>,
      <<<<"-","x","=","1">>>>,
      <<<<"-","h">>>>,
      <<<<"-","h","e","l","p","=","m","e">>>>,
      <<<<"-","p","=","z">>>>,
      <<<<"-","b">>>>,
      <<<<"-","n","a","m","e","=","v">>, <<"-","x">>>>,
      <<<<"-","-">>, <<"-","x">>>>,
      <<<<"-","n","a","m","e">>>>,
      <<<<"-","d","=","z">>>>,
      <<<<"-","b","=","z">>>>,
      <<<<"-","=","1">>>> }

\* The TOML strings of the program: not valid TOML, a key that is no
\* Setting, and a value that is no duration.
ArgsStrings ==
    {[ok |-> FALSE, tree |-> <<>>],
     [ok |-> TRUE, tree |-> TreeOf({Entry(<< <<"a"," ","c">> >>, IntLeaf(<<1>>))})],
     [ok |-> TRUE, tree |-> TreeOf({Entry(<< <<"d">> >>, StrLeaf(<<"z">>))})],
     [ok |-> TRUE, tree |-> TreeOf({Entry(<< NameText >>, StrLeaf(<<"v">>))})]}

InitArgs ==
    /\ sets = DeclareAll([s \in {CommandLine, "S", "T", "H"} |->
                             IF s = CommandLine THEN New(ExitOnError)
                             ELSE IF s = "T" THEN New(PanicOnError)
                             ELSE New(ContinueOnError)],
                          ArgsProgram)
    /\ declared = [s \in {CommandLine, "S", "T", "H"} |->
                     {ArgsProgram[i][3] :
                        i \in {j \in 1..Len(ArgsProgram) : ArgsProgram[j][1] = s}}]
    /\ proc = "running"
    /\ last = NoCall
    /\ nloads = 0

NextArgs ==
    \/ \E c \in DOMAIN sets, args \in ArgLists : ParseArguments(c, args)
    \/ \E c \in DOMAIN sets, str \in ArgsStrings : ParseString(c, str)
    \/ \E c \in DOMAIN sets, file \in Files : Parse(c, file)

SpecArgs == InitArgs /\ [][NextArgs]_vars


(* ------------------- buildLoadError on its own ------------------------- *)

\* The paths buildLoadError is called with.
ErrPaths == {<<"c">>, <<"t",".","p">>, <<"a"," ","c">>}

\* Error texts about a flag that is missing: a beginning, a name and an end.
MissingFlagTexts ==
    {head \o name \o tail :
        head \in {NoSuchFlagText, <<"x">> \o NoSuchFlagText, <<"n","o"," ","s","u","c","h"," ","f","l","a","g"," ">>},
        name \in {<<>>, <<"c">>, <<"t",".","p">>, <<"a"," ","c">>, <<" ","c">>},
        tail \in {<<>>, <<" ","x">>}}

\* Error texts about a value that does not parse: the function, the value
\* and what is wrong with it.
ParsingTexts ==
    {head \o RegexParsingText \o value \o tail :
        head \in {<<>>, <<"s","t","r","c","o","n","v",".","P","a","r","s","e","I","n","t",":">>, <<"s","t","r","c","o","n","v",".","P","a","r","s","e","B","o","o","l",":">>, NoSuchFlagText \o <<"c">>},
        value \in {<<>>, <<"z">>, <<"1"," ","2">>},
        tail \in {RegexSyntaxText, <<"\"",":"," ","v","a","l","u","e"," ","o","u","t"," ","o","f"," ","r","a","n","g","e">>, RegexSyntaxText \o <<" ">>,
                  RegexSyntaxText \o <<"\n">>}}

\* The error texts buildLoadError is called with.
ErrTexts ==
    MissingFlagTexts \cup ParsingTexts
      \cup {<<>>, ErrHelp, InvalidDurationText \o <<"z">>}

\* errorString := buildLoadError(path, err).Error()
BuildLoadError(path, text) ==
    /\ proc = "running"
    /\ last' = [NoCall EXCEPT !.op = "buildLoadError", !.path = path,
                              !.args = <<text>>, !.err = buildLoadError(path, text)]
    /\ UNCHANGED <<sets, declared, proc, nloads>>

InitErr ==
    /\ sets = [s \in {CommandLine} |-> New(ExitOnError)]
    /\ declared = [s \in {CommandLine} |-> {}]
    /\ proc = "running"
    /\ last = NoCall
    /\ nloads = 0

NextErr == \E path \in ErrPaths, text \in ErrTexts : BuildLoadError(path, text)

SpecErr == InitErr /\ [][NextErr]_vars

(* ------------------- the vocabulary of the claims ---------------------- *)

RECURSIVE DocLeavesAt(_, _)
\* The scalar leaves of a document below a path of keys, each with the
\* '.'-join of the keys from the root to it.
DocLeavesAt(tree, path) ==
    UNION { IF tree[key].isTree
            THEN DocLeavesAt(tree[key].sub, Append(path, key))
            ELSE {[name |-> Join(Append(path, key), Dot), leaf |-> tree[key].leaf]}
          : key \in DOMAIN tree }

DocLeaves(tree) == DocLeavesAt(tree, <<>>)

RECURSIVE TablePathsAt(_, _)
\* The dotted paths of the tables of a document.
TablePathsAt(tree, path) ==
    UNION { IF tree[key].isTree
            THEN {Join(Append(path, key), Dot)}
                 \cup TablePathsAt(tree[key].sub, Append(path, key))
            ELSE {}
          : key \in DOMAIN tree }

TablePaths(tree) == TablePathsAt(tree, <<>>)

\* The last call was Parse or ParseString and its text was valid TOML.
DocLoaded == last.op \in {"Parse", "ParseString"} /\ last.ok

\* The leaves of the last document whose path is no Setting of the Set.
Undeclared == {e \in DocLeaves(last.doc) : e.name \notin DOMAIN sets[last.set].formal}

\* The leaves of the last document that are a Setting of the Set and whose
\* value the Setting's type does not parse.
Unconvertible ==
    {e \in DocLeaves(last.doc) :
        /\ e.name \in DOMAIN sets[last.set].formal
        /\ ValueSet(sets[last.set].formal[e.name].type, FormatValue(e.leaf)).err # NoErr}

\* This step is a call of Parse or ParseString on valid TOML.
DocLoadStep == nloads' = nloads + 1 /\ last'.op \in {"Parse", "ParseString"} /\ last'.ok

(* ------------------------------- claims -------------------------------- *)

\* C1: when Parse or ParseString of a document whose leaves are all declared
\* returns no error, every Setting of the Set whose dotted path is a leaf of
\* the document holds its type's parse of the leaf's value, every other
\* Setting of the Set holds what it held before the call, and no other Set
\* has changed.
C1_LoadAssignsLeaves ==
    [][(DocLoadStep /\ last'.err = NoErr
        /\ \A e \in DocLeaves(last'.doc) : e.name \in DOMAIN sets[last'.set].formal)
       => LET c      == last'.set
              leaves == DocLeaves(last'.doc)
          IN  /\ \A name \in DOMAIN sets[c].formal :
                    LET here == {e \in leaves : e.name = name}
                    IN  IF here # {}
                        THEN \A e \in here :
                                sets'[c].formal[name].value
                                  = ValueSet(sets[c].formal[name].type,
                                             FormatValue(e.leaf)).val
                        ELSE sets'[c].formal[name] = sets[c].formal[name]
              /\ \A s \in DOMAIN sets \ {c} : sets'[s] = sets[s]]_vars

\* A load of two leaves, both in tables, has returned no error: both
\* Settings hold the new values and the Setting c, which is not in the
\* document, its default.
C1_Witness ==
    /\ last.op = "ParseString" /\ last.err = NoErr
    /\ {e.name : e \in DocLeaves(last.doc)} = {<<"t",".","e">>, Join(DeepPath, Dot)}
    /\ sets["S"].formal[<<"t",".","e">>].value = BoolVal(TRUE)
    /\ sets["S"].formal[Join(DeepPath, Dot)].value = IntVal(FALSE, <<7>>)
    /\ sets["S"].formal[<<"c">>].value = Unknown

\* C2: a load of a document with a leaf that was never declared (its other
\* leaves being convertible) returns the error '<name> is not a valid config
\* setting', <name> being the full dotted path of an undeclared leaf.
C2_UnknownSettingNamesLeaf ==
    (DocLoaded /\ Undeclared # {} /\ Unconvertible = {})
    => last.err \in {e.name \o NotValidSettingText : e \in Undeclared}

\* C3: a load of a document whose leaves are all declared and one of whose
\* values does not convert to its Setting's type returns the error 'The
\* value for <path> is invalid', <path> being the dotted path of such a leaf.
C3_TypeMismatchNamesPath ==
    (DocLoaded /\ Undeclared = {} /\ Unconvertible # {})
    => last.err \in {ValueForText \o e.name \o IsInvalidText : e \in Unconvertible}

\* C5: a load that returns no error leaves every Setting of the Set with the
\* value of the document's leaf if the document has its key; if not, with
\* the value of the leaf of the load before if that one returned no error
\* and had its key; and with the value it held, never reset to its default,
\* otherwise.
C5_ReloadOverwritesOnlyPresentKeys ==
    [][(DocLoadStep /\ last'.err = NoErr)
       => LET c    == last'.set
              now  == DocLeaves(last'.doc)
              then == IF last.good >= 1 /\ last.set = c /\ last.ok
                      THEN DocLeaves(last.doc) ELSE {}
              Of(es, name) == CHOOSE e \in es : e.name = name
              Parse_(name, e) ==
                  ValueSet(sets[c].formal[name].type, FormatValue(e.leaf)).val
          IN  \A name \in DOMAIN sets[c].formal :
                 sets'[c].formal[name].value
                   = IF \E e \in now : e.name = name
                     THEN Parse_(name, Of(now, name))
                     ELSE IF \E e \in then : e.name = name
                     THEN Parse_(name, Of(then, name))
                     ELSE sets[c].formal[name].value]_vars

\* Two loads in a row have returned no error; the second held the key c and
\* not the key t.e, which holds the value of the first load, not its default.
C5_Witness ==
    /\ DocLoaded /\ last.good = 2
    /\ {e.name : e \in DocLeaves(last.doc)} = {<<"c">>}
    /\ sets["S"].formal[<<"c">>].value = StrVal(<<"U","S","A">>)
    /\ sets["S"].formal[<<"t",".","e">>].value = BoolVal(TRUE)
    /\ sets["S"].formal[<<"t",".","e">>].def = BoolVal(FALSE)

\* C6 as stated: the calls of Set of a load are exactly one for each scalar
\* leaf of the document.
C6_OneAttemptPerLeaf ==
    DocLoaded
    => /\ {last.attempts[i] : i \in 1..Len(last.attempts)}
            = {<<e.name, FormatValue(e.leaf)>> : e \in DocLeaves(last.doc)}
       /\ Len(last.attempts) = Cardinality(DocLeaves(last.doc))

\* C6, amended: the calls of Set of a load are each for a scalar leaf of the
\* document, named by the '.'-join of the keys from the root to the leaf, at
\* most one for a leaf, and exactly one for each leaf when the load returns
\* no error; none is for a table, and a Setting named as a table keeps its
\* value; a document without leaves (empty, or of empty tables) makes no
\* call and returns no error.
C6_AttemptsAreLeaves ==
    [][DocLoadStep
       => LET c      == last'.set
              leaves == DocLeaves(last'.doc)
              att    == last'.attempts
          IN  /\ \A i \in 1..Len(att) :
                    \E e \in leaves : att[i] = <<e.name, FormatValue(e.leaf)>>
              /\ \A i, j \in 1..Len(att) : i # j => att[i][1] # att[j][1]
              /\ last'.err = NoErr => Len(att) = Cardinality(leaves)
              /\ \A i \in 1..Len(att) : att[i][1] \notin TablePaths(last'.doc)
              /\ \A name \in TablePaths(last'.doc) \cap DOMAIN sets[c].formal :
                    sets'[c].formal[name] = sets[c].formal[name]
              /\ leaves = {} => att = <<>> /\ last'.err = NoErr]_vars

\* A load of a leaf three tables deep beside a leaf in the table t has
\* returned no error, and the Setting named t holds its default.
C6_Witness ==
    /\ DocLoaded /\ last.err = NoErr
    /\ {last.attempts[i][1] : i \in 1..Len(last.attempts)}
          = {Join(DeepPath, Dot), <<"t",".","e">>}
    /\ <<"t">> \in TablePaths(last.doc)
    /\ sets["S"].formal[<<"t">>].value = Unknown

(* ---------------- the vocabulary of the claims on arguments ------------ *)

HelpNames == {<<"h">>, <<"h","e","l","p">>}

\* A token's text after its one or two dashes.
Dashless(token) == IF token[2] = "-" THEN Drop(token, 2) ELSE Drop(token, 1)

\* The token reads as a flag: -name, --name, -name=value or --name=value.
IsFlagToken(token) ==
    /\ Len(token) >= 2
    /\ token[1] = "-"
    /\ token # <<"-","-">>
    /\ Dashless(token) # <<>>
    /\ Dashless(token)[1] \notin {"-", "="}

HasEquals(token) == \E i \in 1..Len(token) : token[i] = "="

\* The name of the flag of a flag token: up to its first '='.
FlagName(token) ==
    LET word == Dashless(token)
    IN  IF HasEquals(token)
        THEN SubSeq(word, 1, (CHOOSE i \in 1..Len(word) :
                                 word[i] = "=" /\ \A j \in 1..(i - 1) : word[j] # "=") - 1)
        ELSE word

\* The text after the first '=' of a flag token.
FlagValue(token) ==
    LET word == Dashless(token)
    IN  Drop(word, CHOOSE i \in 1..Len(word) :
                      word[i] = "=" /\ \A j \in 1..(i - 1) : word[j] # "=")

\* The token assigns, with '=', a string Setting of the map.
AssignsString(formal, token) ==
    /\ IsFlagToken(token) /\ HasEquals(token)
    /\ FlagName(token) \in DOMAIN formal
    /\ formal[FlagName(token)].type = "string"

\* The i-th token is a flag token whose name is not in names, and every
\* token before it assigns a string Setting.
ReachesFlag(formal, args, i, names) ==
    /\ i \in 1..Len(args)
    /\ IsFlagToken(args[i])
    /\ FlagName(args[i]) \in names
    /\ \A j \in 1..(i - 1) : AssignsString(formal, args[j])

\* The texts that name no Setting of the map and do not ask for help.
IsUnknown(formal, name) == name \notin DOMAIN formal /\ name \notin HelpNames

\* This step is a call of ParseArguments.
ArgsStep == nloads' = nloads + 1 /\ last'.op = "ParseArguments"

\* This step is a call of Parse or ParseString.
LoadStep == nloads' = nloads + 1 /\ last'.op \in {"Parse", "ParseString"}

\* What the policy of a Set makes of an error of ParseArguments.
ByPolicy(errorHandling) ==
    IF errorHandling = ContinueOnError THEN "running"
    ELSE IF errorHandling = ExitOnError THEN "exited"
    ELSE "panicked"

NameEqualsValue == <<"-","-","n","a","m","e","=","v","a","l","u","e">>

ValueText == <<"v","a","l","u","e">>

(* --------------------------- claims, continued ------------------------- *)

\* C4: a name declared with a declarator of a Set is a Setting of that Set
\* and, unless it was declared on another Set too, of no other Set; and a
\* later ParseString into the Set of a document that gives the name a value
\* of its type returns no error.
C4_DeclaratorsRegisterInOwnSet ==
    [][/\ \A s \in DOMAIN sets' : \A name \in declared'[s] :
             /\ name \in DOMAIN sets'[s].formal
             /\ \A t \in DOMAIN sets' \ {s} :
                   name \notin declared'[t] => name \notin DOMAIN sets'[t].formal
       /\ (nloads' = nloads + 1 /\ last'.op = "ParseString" /\ last'.ok
            /\ \A e \in DocLeaves(last'.doc) : e.name \in declared[last'.set])
             => last'.err = NoErr]_vars

\* C7: a call of Parse or ParseString leaves the process running whatever
\* the policy of the Set, and returns an error when the file cannot be read,
\* the text is not valid TOML, a leaf names no Setting or a value does not
\* convert; the process stops running only in a call of ParseArguments that
\* met an error on a Set whose policy is not ContinueOnError.
C7_PolicyOnlyInParseArguments ==
    [][/\ LoadStep
          => /\ proc' = "running"
             /\ (\/ ~last'.ok
                 \/ \E e \in DocLeaves(last'.doc) :
                       \/ e.name \notin DOMAIN sets[last'.set].formal
                       \/ ValueSet(sets[last'.set].formal[e.name].type,
                                   FormatValue(e.leaf)).err # NoErr)
                => last'.err # NoErr
       /\ proc' # "running"
          => /\ ArgsStep
             /\ sets[last'.set].handling # ContinueOnError
             /\ last'.err # NoErr]_vars

\* Parse of a file that cannot be read has returned its error on the Set
\* whose policy is PanicOnError, after a call on the Set whose policy is
\* ExitOnError, and the process runs.
C7_Witness ==
    /\ last.op = "Parse" /\ ~last.ok /\ last.err # NoErr
    /\ sets[last.set].handling = PanicOnError
    /\ nloads >= 2
    /\ proc = "running"

\* C8: a call of Parse, ParseString or ParseArguments, whether or not it
\* returns an error, leaves every Set with the Setting names it had, and
\* with the names declared on it.
C8_LoadsKeepTheSettings ==
    [][nloads' # nloads
       => /\ DOMAIN sets' = DOMAIN sets
          /\ \A s \in DOMAIN sets : DOMAIN sets'[s].formal = DOMAIN sets[s].formal
          /\ declared' = declared]_vars

\* A ParseArguments naming a flag that is no Setting has failed on a Set
\* that holds a Setting, and on a Set that holds none.
C8_Witness ==
    /\ last.op = "ParseArguments" /\ last.err # NoErr
    /\ nloads >= 2
    /\ DOMAIN sets["S"].formal = {<<"c">>}
    /\ DOMAIN sets["T"].formal = {}
    /\ proc = "running"

\* C9 as stated: ParseArguments of ["--name=value"] sets the string Setting
\* name to value, and a first token that names a flag never declared makes
\* the call return an error, or the process exit under ExitOnError.
C9_UnknownFlagErrorOrExit ==
    last.op = "ParseArguments"
    => LET formal == sets[last.set].formal
       IN  /\ (last.args = <<NameEqualsValue>> /\ AssignsString(formal, NameEqualsValue))
                => formal[NameText].value = StrVal(ValueText)
           /\ (ReachesFlag(formal, last.args, 1, {FlagName(last.args[1])})
               /\ IsUnknown(formal, FlagName(last.args[1])))
                => \/ proc = "running" /\ last.err # NoErr
                   \/ sets[last.set].handling = ExitOnError /\ proc = "exited"

\* C9, amended: ParseArguments of ["--name=value"] on a Set with the string
\* Setting name sets it to value and returns no error; a flag token that
\* names no Setting (and is not h or help), reached after assignments of
\* string Settings only, ends the call with the error 'flag provided but not
\* defined: -<name>': returned under ContinueOnError, the process exiting
\* under ExitOnError, a panic with it under PanicOnError; in no case does
\* the call return without an error.
C9_UnknownFlagByPolicy ==
    [][ArgsStep
       => LET c      == last'.set
              formal == sets[c].formal
              args   == last'.args
          IN  /\ (args = <<NameEqualsValue>> /\ AssignsString(formal, NameEqualsValue))
                   => /\ sets'[c].formal[NameText].value = StrVal(ValueText)
                      /\ last'.err = NoErr
                      /\ proc' = "running"
              /\ \A i \in 1..Len(args) :
                    (ReachesFlag(formal, args, i, {FlagName(args[i])})
                     /\ IsUnknown(formal, FlagName(args[i])))
                    => /\ last'.err = NotDefinedText \o FlagName(args[i])
                       /\ proc' = ByPolicy(sets[c].handling)
                       /\ DOMAIN sets'[c].formal = DOMAIN formal]_vars

\* After ["--name=value"] has set the Setting name of the Set "S", a call
\* with a flag that was never declared has returned its error.
C9_Witness ==
    /\ last.op = "ParseArguments" /\ last.set = "S"
    /\ last.args = <<<<"-","x","=","1">>>>
    /\ last.err = NotDefinedText \o <<"x">>
    /\ sets["S"].formal[NameText].value = StrVal(ValueText)
    /\ proc = "running"

AttemptFails(formal, att) ==
    \/ att[1] \notin DOMAIN formal
    \/ ValueSet(formal[att[1]].type, att[2]).err # NoErr

\* The error of the call Set(att[1], att[2]) on the map.
AttemptError(formal, att) ==
    IF att[1] \notin DOMAIN formal THEN NoSuchFlagText \o att[1]
    ELSE ValueSet(formal[att[1]].type, att[2]).err

\* C11: in a load, a call of Set that fails is the last call of the load,
\* whatever the depth of its leaf; the load returns buildLoadError of that
\* call's path and error; a Setting whose leaf was not visited keeps its
\* value, and a Setting assigned before the failing call holds the parse of
\* its leaf.
C11_FirstFailureStopsTheLoad ==
    [][DocLoadStep
       => \A formal \in {sets[last'.set].formal}, att \in {last'.attempts} :
          \A bad \in {{i \in 1..Len(att) : AttemptFails(formal, att[i])}} :
          \A good \in {(1..Len(att)) \ bad} :
             LET n == Len(att)
             IN  /\ bad # {}
                      => /\ bad = {n}
                         /\ last'.err = buildLoadError(att[n][1], AttemptError(formal, att[n]))
                 /\ bad = {} => last'.err = NoErr
                 /\ (\E e \in DocLeaves(last'.doc) :
                        AttemptFails(formal, <<e.name, FormatValue(e.leaf)>>))
                      => bad # {}
                 /\ \A name \in DOMAIN formal :
                       (\A i \in 1..n : att[i][1] # name)
                          => sets'[last'.set].formal[name] = formal[name]
                 /\ \A i \in good :
                       sets'[last'.set].formal[att[i][1]].value
                         = ValueSet(formal[att[i][1]].type, att[i][2]).val]_vars

\* A load of c and of t.p, whose value is out of range, has visited c first:
\* the load has returned an error, c holds its new value and t.e, which is
\* not in the document, its default.
C11_Witness ==
    /\ DocLoaded /\ last.err # NoErr
    /\ [i \in 1..Len(last.attempts) |-> last.attempts[i][1]] = << <<"c">>, <<"t",".","p">> >>
    /\ sets["S"].formal[<<"c">>].value = StrVal(<<"U","S","A">>)
    /\ sets["S"].formal[<<"t",".","e">>].value = BoolVal(FALSE)

\* C12: a Parse or ParseString whose text is not valid TOML returns one error
\* (for Parse the path followed by ' is not a valid TOML file. ...', for
\* ParseString 'Not a valid TOML. ...', without a path), a Parse of a file
\* that cannot be read returns the error of the read, and in each case every
\* Setting of every Set is as it was.
C12_NoDocumentNoChange ==
    [][(nloads' = nloads + 1 /\ last'.op \in {"Parse", "ParseString"} /\ ~last'.ok)
       => /\ sets' = sets
          /\ proc' = proc
          /\ last'.attempts = <<>>
          /\ last'.op = "ParseString" => last'.err = NotValidTomlText
          /\ last'.op = "Parse"
               => \E file \in Files :
                     /\ file.path = last'.path
                     /\ last'.err = IF file.readable
                                    THEN file.path \o NotValidTomlFileText
                                    ELSE OpenText \o file.path \o NoSuchFileText]_vars

\* After a load has set c and t.e, Parse of the file that is not valid TOML
\* has returned its error, and both hold the values of the load.
C12_Witness ==
    /\ last.op = "Parse" /\ ~last.ok
    /\ last.err = <<"b">> \o NotValidTomlFileText
    /\ sets["S"].formal[<<"c">>].value = StrVal(<<"U","S","A">>)
    /\ sets["S"].formal[<<"t",".","e">>].value = BoolVal(TRUE)

(* ----------------------- claims on buildLoadError ---------------------- *)

\* The text starts with 'no such flag -' and a name follows.
StartsNoSuchFlag(text) ==
    HasPrefix(text, NoSuchFlagText) /\ Len(text) > Len(NoSuchFlagText)

\* The text ends with '": invalid syntax' and holds ' parsing "' before that.
EndsInvalidSyntax(text) ==
    /\ HasSuffix(text, RegexSyntaxText)
    /\ \E i \in 1..Len(text) :
          /\ i + Len(RegexParsingText) - 1 <= Len(text) - Len(RegexSyntaxText)
          /\ SubSeq(text, i, i + Len(RegexParsingText) - 1) = RegexParsingText

\* C13: buildLoadError of a text 'no such flag -<name>' is '<name> is not a
\* valid config setting'; if the text is not of that shape and is of the
\* shape '... parsing "<value>": invalid syntax', it is 'The value for <path>
\* is invalid'; of any other text it is the text itself.
C13_TwoShapesRewritten ==
    last.op = "buildLoadError"
    => LET text == last.args[1]
       IN  IF StartsNoSuchFlag(text)
           THEN last.err = Drop(text, Len(NoSuchFlagText)) \o NotValidSettingText
           ELSE IF EndsInvalidSyntax(text)
           THEN last.err = ValueForText \o last.path \o IsInvalidText
           ELSE last.err = text


\* The states in which the loop over the keys of the document of this step
\* can end, over every order of the keys of every table, from the Set as it
\* is before the step.
LoadEnds == loadTomlTree(Load(sets[last'.set].formal, NoErr, <<>>),
                         last'.doc, <<>>, Keys(last'.doc))

\* The leaves of the document of this step, as the calls of Set a load makes
\* for them, that are no Setting of the Set or have a value the Setting's
\* type does not parse.
OffendingLeaves ==
    {<<e.name, FormatValue(e.leaf)>> :
       e \in {d \in DocLeaves(last'.doc) :
                AttemptFails(sets[last'.set].formal, <<d.name, FormatValue(d.leaf)>>)}}

\* Every leaf of the document of this step is a Setting of the Set and has a
\* value the Setting's type parses.
AllLeavesLoadable == OffendingLeaves = {}

C15_SuccessIsOrderIndependent ==
    [][DocLoadStep
       => \A bad \in {OffendingLeaves} :
             /\ (last'.err = NoErr) <=> (bad = {})
             /\ bad # {} => /\ last'.attempts # <<>>
                            /\ last'.attempts[Len(last'.attempts)] \in bad]_vars

\* A load of the leaves c and d, of which d is no duration, has visited d
\* first and has returned an error without visiting c.
C15_Witness ==
    /\ DocLoaded /\ last.err # NoErr
    /\ {e.name : e \in DocLeaves(last.doc)} = {<<"c">>, <<"d">>}
    /\ [i \in 1..Len(last.attempts) |-> last.attempts[i][1]] = << <<"d">> >>
====
